---- MODULE Spec2Model ----
(***************************************************************************)
(* A model of streamlit_app.py, the virtual WSN designer and simulator:    *)
(* generate_nodes places the nodes and fills the energy store,             *)
(* connect_nodes derives the topology graph from the transmission range,   *)
(* and simulate_routing finds a shortest path and charges the MAC costs    *)
(* of every hop to the energy store.                                       *)
(*                                                                         *)
(* Positions are drawn from the integer points of [0, area_size]^2 and     *)
(* tx_range from the integers, so that every distance comparison of the    *)
(* code is decided exactly.                                                *)
(***************************************************************************)
EXTENDS Integers, Sequences, FiniteSets, TLC

\* --- Constants (lines 8-10) ---
MAX_ENERGY == 100
TRANSMISSION_COST == 2
RECEPTION_COST == 1

\* --- Bounds of the model ---
MaxNodes == 3        \* Spec: num_nodes is drawn from 1..MaxNodes
MaxArea == 1         \* Spec: area_size is drawn from 1..MaxArea
MaxRange == 2        \* Spec: tx_range is drawn from 0..MaxRange
SessionBudget == 4   \* Spec, SpecRegen: routing stops once a node has spent this
RegenNodes == 2      \* SpecRegen: num_nodes is drawn from 1..RegenNodes
RegenArea == 1       \* SpecRegen: area_size is drawn from 1..RegenArea
RegenRange == 1      \* SpecRegen: tx_range is drawn from 0..RegenRange
DrainBudget == 101   \* SpecDrain: routing stops once a node has spent this

VARIABLES
    positions,     \* node -> <<x, y>>                        (line 69)
    energy,        \* node -> remaining energy                (line 69)
    G,             \* [nodes, adj]: the nx.Graph              (lines 70-72)
    tx_range,      \* the transmission range of the topology  (line 64)
    source,        \* the selected source node                (line 75)
    sink,          \* the selected sink node                  (line 76)
    mac_protocol,  \* the selected MAC protocol               (line 65)
    outcome,       \* how the last operation ended
    path,          \* path returned by the last routing call, <<>> for None
    logs,          \* transcript returned by the last routing call
    before,        \* the energy store as the last routing call found it
    prev           \* the run that the last one repeated, or the last run on the
                   \* store that the last regeneration replaced

vars == <<positions, energy, G, tx_range, source, sink, mac_protocol,
          outcome, path, logs, before, prev>>

MacProtocols == {"CSMA", "TDMA"}

\* The path value None of Python: a returned path is never empty.
None == <<>>

-----------------------------------------------------------------------------
\* --- Utility functions ---

Square(x) == x * x

\* The least k with k * k >= n: sqrt(n) rounded up.
RECURSIVE CeilSqrtFrom(_, _)
CeilSqrtFrom(n, k) == IF Square(k) >= n THEN k ELSE CeilSqrtFrom(n, k + 1)

\* euclidean_distance(a, b), rounded up to an integer: for an integer r,
\* math.sqrt(d2) <= r exactly when CeilSqrt(d2) <= r.
euclidean_distance(a, b) ==
    CeilSqrtFrom(Square(a[1] - b[1]) + Square(a[2] - b[2]), 0)

\* The results random.uniform(0, area_size) is drawn from.
Uniform(area_size) == 0..area_size

\* generate_nodes with an energy store of one key too many.
generate_nodes_extra_key(num_nodes, area_size) ==
    { [positions |-> p, energy |-> [i \in 0..num_nodes |-> MAX_ENERGY]] :
        p \in [0..(num_nodes - 1) -> Uniform(area_size) \X Uniform(area_size)] }

\* generate_nodes(num_nodes, area_size): every (positions, energy) it can return.
generate_nodes(num_nodes, area_size) ==
    { [positions |-> p, energy |-> [i \in 0..(num_nodes - 1) |-> MAX_ENERGY]] :
        p \in [0..(num_nodes - 1) -> Uniform(area_size) \X Uniform(area_size)] }

\* nx.Graph() followed by G.add_nodes_from(positions).
Graph(nodes) == [nodes |-> nodes, adj |-> [n \in nodes |-> {}]]

\* G.add_edge(i, j): an undirected edge, stored at both ends.
add_edge(g, i, j) ==
    [g EXCEPT !.adj = [n \in g.nodes |->
        IF n = i THEN g.adj[n] \cup {j}
        ELSE IF n = j THEN g.adj[n] \cup {i}
        ELSE g.adj[n]]]

\* connect_pair with < for <=: nodes at exactly tx_range are not joined.
connect_pair_strict(g, pos, range, i, j) ==
    IF i # j /\ euclidean_distance(pos[i], pos[j]) < range
    THEN add_edge(g, i, j)
    ELSE g

\* The body of the double loop of connect_nodes for the pair (i, j).
connect_pair(g, pos, range, i, j) ==
    IF i # j /\ euclidean_distance(pos[i], pos[j]) <= range
    THEN add_edge(g, i, j)
    ELSE g

\* connect_nodes(G, positions, tx_range): the double loop over the ordered
\* pairs, in the order of the dictionary (0, 1, ..., n-1).
RECURSIVE connect_from(_, _, _, _, _)
connect_from(g, pos, range, i, j) ==
    LET n == Cardinality(DOMAIN pos) IN
    IF i >= n THEN g
    ELSE IF j >= n THEN connect_from(g, pos, range, i + 1, 0)
    ELSE connect_from(connect_pair(g, pos, range, i, j), pos, range, i, j + 1)

connect_nodes(g, pos, range) == connect_from(g, pos, range, 0, 0)


-----------------------------------------------------------------------------
\* --- nx.shortest_path (line 29) ---

\* The walks of exactly d hops from s to t.
RECURSIVE walks(_, _, _, _)
walks(g, s, t, d) ==
    IF d = 0
    THEN IF s = t THEN {<<s>>} ELSE {}
    ELSE UNION { { <<s>> \o w : w \in walks(g, m, t, d - 1) } : m \in g.adj[s] }

\* search_from returning the walks of any hop count: a path, not a shortest one.
search_any(g, s, t, d) ==
    UNION { walks(g, s, t, k) : k \in d..(Cardinality(g.nodes) - 1) }

\* The search by increasing hop count: the walks of the first hop count d
\* that reaches t, or none when no simple path can be that long.
RECURSIVE search_from(_, _, _, _)
search_from(g, s, t, d) ==
    IF d >= Cardinality(g.nodes) THEN {}
    ELSE IF walks(g, s, t, d) # {} THEN walks(g, s, t, d)
    ELSE search_from(g, s, t, d + 1)

\* shortest_path that never returns a path without a hop.
shortest_path_nonempty(g, s, t) ==
    IF s \notin g.nodes \/ t \notin g.nodes
    THEN { [raises |-> "NodeNotFound", path |-> None] }
    ELSE IF search_from(g, s, t, 1) = {}
    THEN { [raises |-> "NetworkXNoPath", path |-> None] }
    ELSE { [raises |-> "none", path |-> p] : p \in search_from(g, s, t, 1) }

\* nx.shortest_path(G, source=s, target=t) without weights: every result the
\* call can produce. Any shortest path may be the one returned; an endpoint
\* outside G raises NodeNotFound, no path raises NetworkXNoPath.
shortest_path(g, s, t) ==
    IF s \notin g.nodes \/ t \notin g.nodes
    THEN { [raises |-> "NodeNotFound", path |-> None] }
    ELSE IF search_from(g, s, t, 0) = {}
    THEN { [raises |-> "NetworkXNoPath", path |-> None] }
    ELSE { [raises |-> "none", path |-> p] : p \in search_from(g, s, t, 0) }

-----------------------------------------------------------------------------
\* --- simulate_routing (lines 27-44) ---

\* deduct with += for -=.
deduct_add(e, n, cost) == [e EXCEPT ![n] = @ + cost]

\* deduct charging a full battery instead of the live store.
deduct_from_full(e, n, cost) == [e EXCEPT ![n] = MAX_ENERGY - cost]

\* energy[n] -= cost
deduct(e, n, cost) == [e EXCEPT ![n] = @ - cost]

\* mac_hop whose TDMA branch charges the full costs.
mac_hop_unhalved(e, sender, receiver, mac) ==
    IF mac = "CSMA" \/ mac = "TDMA"
    THEN deduct(deduct(e, sender, TRANSMISSION_COST), receiver, RECEPTION_COST)
    ELSE e

\* Lines 35-40: the MAC protocol logic of one hop.
mac_hop(e, sender, receiver, mac) ==
    IF mac = "CSMA"
    THEN deduct(deduct(e, sender, TRANSMISSION_COST), receiver, RECEPTION_COST)
    ELSE IF mac = "TDMA"
    THEN deduct(deduct(e, sender, TRANSMISSION_COST \div 2),
                receiver, RECEPTION_COST \div 2)
    ELSE e

\* hop_log naming the receiver first.
hop_log_reversed(sender, receiver) == ToString(receiver) \o " → " \o ToString(sender)

\* Line 41: f"{sender} → {receiver}"
hop_log(sender, receiver) == ToString(sender) \o " → " \o ToString(receiver)

\* Lines 31-41: the loop over range(len(path) - 1), from index i on (1-based).
RECURSIVE hop_loop(_, _, _, _, _)
hop_loop(p, i, e, lg, mac) ==
    IF i > Len(p) - 1 THEN [energy |-> e, logs |-> lg]
    ELSE hop_loop(p, i + 1,
                  mac_hop(e, p[i], p[i + 1], mac),
                  Append(lg, hop_log(p[i], p[i + 1])),
                  mac)

\* simulate_routing whose NetworkXNoPath handler charges the attempted
\* transmission from source to sink.
simulate_routing_charging_first(g, s, t, e, mac) ==
    { IF r.raises = "none"
      THEN LET done == hop_loop(r.path, 1, e, <<>>, mac) IN
           [outcome |-> "path", path |-> r.path,
            logs |-> done.logs, energy |-> done.energy]
      ELSE IF r.raises = "NetworkXNoPath"
      THEN [outcome |-> "nopath", path |-> None,
            logs |-> <<"No path found!">>,
            energy |-> mac_hop(e, s, t, mac)]
      ELSE [outcome |-> "NodeNotFound", path |-> None,
            logs |-> <<>>, energy |-> e]
      : r \in shortest_path(g, s, t) }

\* simulate_routing(G, source, sink, energy, mac_protocol): every way the call
\* can end. NetworkXNoPath is caught (line 43), NodeNotFound is not and leaves
\* the function as an exception.
simulate_routing(g, s, t, e, mac) ==
    { IF r.raises = "none"
      THEN LET done == hop_loop(r.path, 1, e, <<>>, mac) IN
           [outcome |-> "path", path |-> r.path,
            logs |-> done.logs, energy |-> done.energy]
      ELSE IF r.raises = "NetworkXNoPath"
      THEN [outcome |-> "nopath", path |-> None,
            logs |-> <<"No path found!">>, energy |-> e]
      ELSE [outcome |-> "NodeNotFound", path |-> None,
            logs |-> <<>>, energy |-> e]
      : r \in shortest_path(g, s, t) }

-----------------------------------------------------------------------------
\* --- The session ---

\* st.sidebar.selectbox(label, options): the values it can return.
selectbox(options) == options

\* node_options offering range(len(G.nodes) + 1): one number too many.
node_options_one_more(g) == g.nodes \cup {Cardinality(g.nodes)}

\* list(G.nodes), the options of the source and sink selectors (lines 75-76).
node_options(g) == g.nodes

RECURSIVE SumOver(_, _)
SumOver(f, S) ==
    IF S = {} THEN 0
    ELSE LET n == CHOOSE m \in S : TRUE IN f[n] + SumOver(f, S \ {n})

\* The energy a store has lost since another one.
Spent(from, to) == SumOver([n \in DOMAIN from |-> from[n] - to[n]], DOMAIN from)

\* What is remembered of an operation when the next one repeats or replaces it.
Summary ==
    [outcome |-> outcome, source |-> source, sink |-> sink,
     mac_protocol |-> mac_protocol,
     hops |-> IF path = None THEN 0 ELSE Len(path) - 1,
     spent |-> Spent(before, energy)]

NoOperation ==
    [outcome |-> "none", source |-> 0, sink |-> 0, mac_protocol |-> "CSMA",
     hops |-> 0, spent |-> 0]

\* Lines 62-72: the sidebar controls are read, the nodes generated and the
\* graph built: every topology one run of the script can produce.
Topologies(counts, areas, ranges) ==
    UNION { UNION {
        { [positions |-> gen.positions, energy |-> gen.energy,
           G |-> connect_nodes(Graph(DOMAIN gen.positions), gen.positions, range),
           tx_range |-> range] :
            gen \in generate_nodes(num_nodes, area_size) }
        : area_size \in areas, range \in ranges }
        : num_nodes \in counts }

\* The selectors of a session that has selected nothing yet return their
\* first option.
first_option(g) == CHOOSE n \in node_options(g) : \A m \in node_options(g) : n <= m

\* The first run of the script.
InitWith(counts, areas, ranges) ==
    \E top \in Topologies(counts, areas, ranges) :
        /\ positions = top.positions
        /\ energy = top.energy
        /\ G = top.G
        /\ tx_range = top.tx_range
        /\ source = first_option(top.G)
        /\ sink = first_option(top.G)
        /\ mac_protocol = "CSMA"
        /\ outcome = "generated"
        /\ path = None
        /\ logs = <<>>
        /\ before = top.energy
        /\ prev = NoOperation

\* A rerun of the script that regenerates the topology: the former graph and
\* energy store are replaced together, and the selectors offer the new nodes.
Regenerate(counts, areas, ranges) ==
    \E top \in Topologies(counts, areas, ranges) :
    \E s \in selectbox(node_options(top.G)), t \in selectbox(node_options(top.G)),
       mac \in selectbox(MacProtocols) :
        /\ positions' = top.positions
        /\ energy' = top.energy
        /\ G' = top.G
        /\ tx_range' = top.tx_range
        /\ source' = s
        /\ sink' = t
        /\ mac_protocol' = mac
        /\ outcome' = "generated"
        /\ path' = None
        /\ logs' = <<>>
        /\ before' = top.energy
        /\ prev' = Summary

\* Line 80 and what it leaves behind: simulate_routing is called on the
\* session's graph and energy store, which it changes in place.
Route(s, t, mac, remembered) ==
    \E r \in simulate_routing(G, s, t, energy, mac) :
        /\ source' = s
        /\ sink' = t
        /\ mac_protocol' = mac
        /\ outcome' = r.outcome
        /\ path' = r.path
        /\ logs' = r.logs
        /\ energy' = r.energy
        /\ before' = energy
        /\ prev' = remembered
        /\ UNCHANGED <<positions, G, tx_range>>

\* Routing goes on while every node has spent less than the budget.
WithinBudget(budget) == \A n \in G.nodes : MAX_ENERGY - energy[n] < budget

\* Lines 75-80: source, sink and protocol are selected and the simulation run.
RunSimulation(budget) ==
    /\ WithinBudget(budget)
    /\ \E s \in selectbox(node_options(G)), t \in selectbox(node_options(G)),
          mac \in selectbox(MacProtocols) :
        Route(s, t, mac, NoOperation)

\* Lines 79-80: the simulation is run again with the selectors left as they
\* are, on the store the run before has left.
RunAgain(budget) ==
    /\ WithinBudget(budget)
    /\ outcome \in {"path", "nopath"}
    /\ Route(source, sink, mac_protocol, Summary)

\* One session: the routing calls on one topology and its energy store.
Init == InitWith(1..MaxNodes, 1..MaxArea, 0..MaxRange)

Next ==
    \/ RunSimulation(SessionBudget)
    \/ RunAgain(SessionBudget)

Spec == Init /\ [][Next]_vars

\* A session that is regenerated between routing calls.
InitRegen == InitWith(1..RegenNodes, 1..RegenArea, 0..RegenRange)

NextRegen ==
    \/ Regenerate(1..RegenNodes, 1..RegenArea, 0..RegenRange)
    \/ RunSimulation(SessionBudget)
    \/ RunAgain(SessionBudget)

SpecRegen == InitRegen /\ [][NextRegen]_vars

\* A session that routes until a node has spent DrainBudget: two nodes,
\* deployed at one point and so in range of each other.
InitDrain == InitWith({2}, {0}, {1})

NextDrain ==
    \/ RunSimulation(DrainBudget)
    \/ RunAgain(DrainBudget)

SpecDrain == InitDrain /\ [][NextDrain]_vars

-----------------------------------------------------------------------------
\* --- Properties ---

\* The last operation was a call of simulate_routing.
Routed == outcome \in {"path", "nopath", "NodeNotFound"}

\* The nodes connected to a node of S.
RECURSIVE Component(_, _)
Component(g, S) ==
    LET T == S \cup UNION { g.adj[n] : n \in S } IN
    IF T = S THEN S ELSE Component(g, T)

Connected(g, s, t) == t \in Component(g, {s})

\* The number of hops of p that n sends, and that n receives.
Sends(p, n) == Cardinality({ k \in 1..(Len(p) - 1) : p[k] = n })
Receives(p, n) == Cardinality({ k \in 1..(Len(p) - 1) : p[k + 1] = n })

\* The cost pair of a MAC policy, as the specification tabulates it.
TxCost(mac) == IF mac = "CSMA" THEN 2 ELSE 1
RxCost(mac) == IF mac = "CSMA" THEN 1 ELSE 0

Hops == Len(path) - 1

\* C1: a routing call between valid nodes of different connected components
\* returns (None, ["No path found!"]) and leaves every node's energy as it was.
C1_NoPathLeavesEnergy ==
    (Routed /\ source \in G.nodes /\ sink \in G.nodes
        /\ ~Connected(G, source, sink))
    => /\ outcome = "nopath"
       /\ path = None
       /\ logs = <<"No path found!">>
       /\ energy = before

\* C1 witness: no path was found on a store that earlier calls had drained.
C1_Witness ==
    /\ outcome = "nopath"
    /\ source # sink
    /\ \E n \in G.nodes : energy[n] < MAX_ENERGY

\* C2: one routing call charges every node tx_cost for each hop it sends and
\* rx_cost for each hop it receives (CSMA 2 and 1, TDMA 1 and 0), so the total
\* is L * tx_cost + L * rx_cost and nodes off the path keep their energy; the
\* line 0-1-2 from 100 ends at 98, 97, 99 under CSMA and 99, 99, 100 under TDMA.
C2_PerHopCharges ==
    outcome = "path" =>
        /\ \A n \in G.nodes :
            before[n] - energy[n] =
                TxCost(mac_protocol) * Sends(path, n)
                + RxCost(mac_protocol) * Receives(path, n)
        /\ Spent(before, energy) =
                Hops * TxCost(mac_protocol) + Hops * RxCost(mac_protocol)
        /\ \A n \in G.nodes :
            (\A k \in 1..Len(path) : path[k] # n) => energy[n] = before[n]
        /\ (path = <<0, 1, 2>> /\ (\A n \in G.nodes : before[n] = 100)) =>
            IF mac_protocol = "CSMA"
            THEN energy[0] = 98 /\ energy[1] = 97 /\ energy[2] = 99
            ELSE energy[0] = 99 /\ energy[1] = 99 /\ energy[2] = 100

\* C2 witness: the line 0-1-2 routed under CSMA from a full store.
C2_Witness ==
    /\ outcome = "path"
    /\ path = <<0, 1, 2>>
    /\ mac_protocol = "CSMA"
    /\ \A n \in G.nodes : before[n] = MAX_ENERGY
    /\ energy[1] = 97

\* The walks of L nodes from s to t in g.
WalksOf(g, s, t, L) ==
    { w \in [1..L -> g.nodes] :
        /\ w[1] = s
        /\ w[L] = t
        /\ \A k \in 1..(L - 1) : w[k + 1] \in g.adj[w[k]] }

\* C3: for connected source and sink a path is returned; it starts at source,
\* ends at sink, follows edges of the graph, and no walk has fewer hops.
C3_ShortestPath ==
    /\ (Routed /\ source \in G.nodes /\ Connected(G, source, sink))
        => outcome = "path"
    /\ outcome = "path" =>
        /\ Len(path) >= 1
        /\ path \in WalksOf(G, source, sink, Len(path))
        /\ \A L \in 1..(Len(path) - 1) : WalksOf(G, source, sink, L) = {}

\* C3 witness: a one-hop path was returned where a two-hop walk exists too.
C3_Witness ==
    /\ outcome = "path"
    /\ Len(path) = 2
    /\ WalksOf(G, source, sink, 3) # {}

C5_RangeGraph ==
    /\ G.nodes = DOMAIN positions
    /\ \A i \in G.nodes :
        /\ i \notin G.adj[i]
        /\ \A j \in G.nodes :
            /\ j \in G.adj[i] <=> i \in G.adj[j]
            /\ i # j =>
                (j \in G.adj[i] <=>
                    (positions[i][1] - positions[j][1]) * (positions[i][1] - positions[j][1])
                    + (positions[i][2] - positions[j][2]) * (positions[i][2] - positions[j][2])
                    <= tx_range * tx_range)

\* C5 witness: one node is isolated, two others are joined, and two nodes on
\* a diagonal (distance sqrt 2) are out of range 1.
C5_Witness ==
    /\ tx_range = 1
    /\ \E i \in G.nodes : G.adj[i] = {}
    /\ \E i \in G.nodes : G.adj[i] # {}
    /\ \E i, j \in G.nodes :
        /\ positions[i] = <<0, 0>>
        /\ positions[j] = <<1, 1>>
        /\ j \notin G.adj[i]

\* The last two operations were routing calls of the same request.
SameRequestTwice ==
    /\ Routed
    /\ prev.outcome = "path"
    /\ prev.source = source
    /\ prev.sink = sink
    /\ prev.mac_protocol = mac_protocol

C7_InvalidSelectionStopped ==
    /\ source \in G.nodes
    /\ sink \in G.nodes
    /\ outcome # "NodeNotFound"
    /\ \A s, t \in G.nodes \cup {Cardinality(G.nodes)} :
        (s \notin G.nodes \/ t \notin G.nodes) =>
            \A r \in simulate_routing(G, s, t, energy, mac_protocol) :
                r.outcome = "NodeNotFound" /\ r.energy = energy

\* C7 witness: the node selected before the regeneration is no node of the
\* new graph, and the selectors hold nodes of the new graph.
C7_Witness ==
    /\ outcome = "generated"
    /\ prev.outcome = "path"
    /\ prev.sink \notin G.nodes
    /\ source \in G.nodes
    /\ sink \in G.nodes

\* C8: with source = sink the call returns the single node as its path, an
\* empty transcript, and leaves every node's energy as it was.
C8_SourceIsSink ==
    (Routed /\ source = sink /\ source \in G.nodes) =>
        /\ outcome = "path"
        /\ path = <<source>>
        /\ logs = <<>>
        /\ energy = before

\* C8 witness: a node with a neighbour was routed to itself.
C8_Witness ==
    /\ outcome = "path"
    /\ source = sink
    /\ G.adj[source] # {}
    /\ mac_protocol = "CSMA"

\* The decimal form of a node number.
Decimal(n) == <<"0", "1", "2", "3", "4", "5", "6", "7", "8", "9">>[n + 1]

\* C9: a returned path p comes with len(p) - 1 transcript entries, the k-th
\* being "p[k] → p[k+1]"; "No path found!" appears only with no path.
C9_Transcript ==
    /\ outcome = "path" =>
        /\ Len(logs) = Len(path) - 1
        /\ \A k \in 1..Len(logs) :
            logs[k] = Decimal(path[k]) \o " → " \o Decimal(path[k + 1])
    /\ (\E k \in 1..Len(logs) : logs[k] = "No path found!") =>
        (path = None /\ outcome = "nopath")
    /\ outcome = "nopath" => logs = <<"No path found!">>

\* C9 witness: a transcript of two hops.
C9_Witness ==
    /\ outcome = "path"
    /\ Len(path) = 3
    /\ Len(logs) = 2

\* C10: the keys of the energy store are the nodes of the active graph,
\* [0, N), and right after a regeneration every node holds MAX_ENERGY.
C10_StoreFollowsGraph ==
    /\ DOMAIN energy = G.nodes
    /\ G.nodes = 0..(Cardinality(G.nodes) - 1)
    /\ DOMAIN positions = G.nodes
    /\ outcome = "generated" => \A n \in G.nodes : energy[n] = MAX_ENERGY

\* C10 witness: a regeneration replaced a store that routing had drained, by
\* one of another size.
C10_Witness ==
    /\ outcome = "generated"
    /\ prev.outcome = "path"
    /\ prev.spent > 0
    /\ prev.sink \notin G.nodes

====
